---- MODULE Spec2Model ----
(***************************************************************************)
(* Model of the Telegram moderation bot:                                   *)
(*   utils/litellm_client.py   LiteLLMClient (model pool, health states,   *)
(*                             selection, fallback, health probe, parsing) *)
(*   services/ai/base_ai_client.py  BaseAiClient.analyze_topic_compliance  *)
(*   services/chat_manager.py  ChatManager (violation records, topic of a  *)
(*                             message, analysis of a message)             *)
(*   routers/message_handlers.py  handle_group_message                     *)
(*                                handle_bot_mention                       *)
(*   services/response_manager.py  ResponseManager.handle_topic_violation  *)
(*   models/ai_config.py       ModelPoolConfig (construction of a pool)    *)
(*   services/ai/model_pool_manager.py  get_all_available_models           *)
(*                                                                         *)
(* The bot runs on one asyncio event loop.  A coroutine runs without       *)
(* interruption between two awaits, so every action below is one such      *)
(* suspend-free block: it starts where a coroutine is resumed and ends at  *)
(* its next await (acompletion) or at its return / raise.                  *)
(***************************************************************************)
EXTENDS Integers, Sequences, FiniteSets, TLC

\* ------------------------------------------------------------------ bounds
\* Logical requests (calls of _request_with_fallback) that may be in flight
\* at the same time.
NumTasks == 2
\* Calls of _make_request (acompletion calls) in one behaviour.
MaxRequests == 4

\* --------------------------------------------------------------- constants
\* RouterConfig.max_fallback_attempts
MaxFallbackAttempts == 3
\* The value of `model` when _select_model returns None.
NoModel == 0
\* The value None of last_error / of a missing reply.
None == "None"

\* A pool of models with three different names.
DistinctModels ==
  << [provider |-> "gemini", name |-> "flash", api_key |-> "key_1",
      priority |-> 1, tags |-> {"classification", "chat"}, max_retries |-> 1],
     [provider |-> "groq", name |-> "llama", api_key |-> "key_1",
      priority |-> 1, tags |-> {"classification", "chat"}, max_retries |-> 1],
     [provider |-> "openai", name |-> "gpt", api_key |-> "key_1",
      priority |-> 2, tags |-> {"classification"}, max_retries |-> 2] >>

\* A pool whose first two models have the same provider and name and differ
\* in their credential.
TwinModels ==
  << [provider |-> "gemini", name |-> "flash", api_key |-> "key_1",
      priority |-> 1, tags |-> {"classification", "chat"}, max_retries |-> 1],
     [provider |-> "gemini", name |-> "flash", api_key |-> "key_2",
      priority |-> 1, tags |-> {"classification", "chat"}, max_retries |-> 1],
     [provider |-> "openai", name |-> "gpt", api_key |-> "key_1",
      priority |-> 2, tags |-> {"classification"}, max_retries |-> 2] >>

Tasks == 1..NumTasks

Strategies == {"round_robin", "priority", "random", "load_balance"}

\* The tag lists the two request kinds pass to _request_with_fallback.
TagsOf(k) ==
  IF k = "classification" THEN {"classification"} ELSE {"conversation", "chat"}
Kinds == {"classification", "conversation"}

\* What _make_request stores as str(e) when acompletion raises.  Provider
\* errors and timeouts are both Exceptions and take the one `except Exception`
\* branch, so one value stands for either.
Causes == {"provider_error_or_timeout"}

VARIABLES
  config,               \* which list of models the client was constructed from
  strategy,             \* router_config.strategy
  fallback_enabled,     \* router_config.fallback_enabled
  model_states,         \* self.model_states: model_id -> health state
  current_model_index,  \* self._current_model_index, kept modulo CursorPeriod
  pc,                   \* per logical request: idle, awaiting, done, raised
  kind,                 \* per logical request: classification / conversation
  attempt,              \* per logical request: loop variable `attempt`
  attempted,            \* per logical request: attempted_models
  last_error,           \* per logical request: last_error
  outcome,              \* per logical request: what the caller received
  hc_pc,                \* health_check: idle, probing, done
  hc_idx,               \* health_check: position of `for model in self.models`
  sel_log,              \* observer: the latest round-robin selections
  client,               \* which client analyze_topic_compliance belongs to
  reply,                \* the text the model returned to it
  payload,              \* the members of the JSON object in that text
  verdict,              \* what analyze_topic_compliance gave its caller
  violation_records,    \* ChatManager.violation_records: topic name -> deque
  now,                  \* datetime.now(), in units of the clock
  tracker_log,          \* observer: the record / reset calls made so far
  last_count,           \* observer: what the get_violation_count call of the
                        \* latest step returned
  existing_topics,      \* ChatManager.existing_topics: name -> TopicInfo
  reaction_levels,      \* settings.reaction_levels: count -> response type
  msg,                  \* the message that handle_group_message was given
  h_pc,                 \* handle_group_message: the await it is suspended at
  rule,                 \* observer: the case of get_topic_from_message taken
  resolved_name,        \* get_topic_from_message: topic_name of the message
  topic,                \* the TopicInfo found so far for the message
  probe_depth,          \* check_topic_by_id: test messages sent, not deleted
  result,               \* analyze_message_topic: result
  violation_count,      \* handle_topic_violation: violation_count
  response_type,        \* handle_topic_violation: response_type
  htv,                  \* handle_topic_violation: not_called, running,
                        \* returned, raised
  calls,                \* observer: the calls to Telegram and to the AI
                        \* client made for the message, with their outcome
  pool_args,            \* the arguments a model pool is constructed from
  pool,                 \* the pool that the construction gave
  listed,               \* what get_all_available_models returned for it
  mention_pc,           \* handle_bot_mention: the await it is suspended at
  generated,            \* the content of the reply of the model to the prompt
                        \* of generate_free_response, or how the call failed
  response,             \* handle_bot_mention: response
  replies               \* observer: the message.reply calls of the handler

configVars == <<config, strategy, fallback_enabled>>

\* The configured pool (self.models), in configuration order.
Models == IF config = "twins" THEN TwinModels ELSE DistinctModels
ModelIdx == 1..Len(Models)

\* ModelConfig.model_id: the bare name for openai/anthropic/cohere, else
\* "provider/name" (a tuple stands for the joined string).
ModelIdOf(m) ==
  IF m.provider \in {"openai", "anthropic", "cohere"}
  THEN <<m.name>>
  ELSE <<m.provider, m.name>>

ModelId(i) == ModelIdOf(Models[i])
ModelIds == {ModelId(i) : i \in ModelIdx}
analysisVars == <<client, reply, payload, verdict>>
routerVars == <<configVars, analysisVars, model_states, current_model_index, pc,
               kind, attempt, attempted, last_error, outcome, hc_pc, hc_idx,
               sel_log>>
trackerVars == <<violation_records, now, tracker_log, last_count>>
chatVars == <<existing_topics, reaction_levels, msg, h_pc, rule,
             resolved_name, topic, probe_depth, result, violation_count,
             response_type, htv, calls>>
poolVars == <<pool_args, pool, listed>>
mentionVars == <<mention_pc, generated, response, replies>>
serviceVars == <<trackerVars, chatVars, poolVars, mentionVars>>
vars == <<config, strategy, fallback_enabled, model_states, current_model_index, pc,
          kind, attempt, attempted, last_error, outcome, hc_pc, hc_idx, sel_log,
          client, reply, payload, verdict, serviceVars>>

\* ----------------------------------------------------------------- helpers
Range(s) == {s[k] : k \in 1..Len(s)}

RECURSIVE Filter(_, _)
\* The subsequence of s whose elements are in the set keep (list comprehension).
Filter(s, keep) ==
  IF s = <<>> THEN <<>>
  ELSE IF Head(s) \in keep THEN <<Head(s)>> \o Filter(Tail(s), keep)
       ELSE Filter(Tail(s), keep)

Max2(a, b) == IF a >= b THEN a ELSE b

RECURSIVE Lcm(_, _)
Lcm(k, n) == IF \A d \in 1..n : k % d = 0 THEN k ELSE Lcm(k + 1, n)
\* The cursor is only ever read modulo the length of a candidate list, which is
\* between 1 and Len(Models); it is stored modulo their least common multiple.
CursorPeriod == Lcm(1, Len(Models))

AllIdx == [i \in ModelIdx |-> i]

TotalStarted(st) ==
  LET RECURSIVE Sum(_)
      Sum(S) == IF S = {} THEN 0
                ELSE LET x == CHOOSE x \in S : TRUE
                     IN st[x].total_requests + Sum(S \ {x})
  IN Sum(ModelIds)

\* ------------------------------------------------------------ _select_model
\* A selection that forgets the availability filter.
AvailableModelsUnfiltered(st) == AllIdx

\* available_models = [m for m in self.models if state[m.model_id]["available"]]
AvailableModels(st) ==
  Filter(AllIdx, {i \in ModelIdx : st[ModelId(i)].available})

\* The candidate list after the tag filter.
Candidates(tags, st) ==
  LET av == AvailableModels(st)
      tagged == Filter(av, {i \in ModelIdx : Models[i].tags \cap tags # {}})
  IN IF tags # {} /\ tagged # <<>> THEN tagged ELSE av

\* max(available_models, key=lambda m: m.priority): the first maximal element.
PriorityPick(c) ==
  c[CHOOSE k \in 1..Len(c) :
      /\ \A j \in 1..Len(c) : Models[c[j]].priority <= Models[c[k]].priority
      /\ \A j \in 1..(k - 1) : Models[c[j]].priority < Models[c[k]].priority]

\* (failed_requests + 1) / max(1, total_requests) of a is less than that of b;
\* the quotients are compared by cross-multiplication.
RateLess(st, a, b) ==
  (st[ModelId(a)].failed_requests + 1) * Max2(1, st[ModelId(b)].total_requests)
    < (st[ModelId(b)].failed_requests + 1) * Max2(1, st[ModelId(a)].total_requests)

\* min(available_models, key=error rate): the first minimal element.
LoadBalancePick(c, st) ==
  c[CHOOSE k \in 1..Len(c) :
      /\ \A j \in 1..Len(c) : ~RateLess(st, c[j], c[k])
      /\ \A j \in 1..(k - 1) : RateLess(st, c[k], c[j])]

\* A cursor that is not advanced.
AdvanceCursorNot(idx) == idx

\* self._current_model_index += 1
AdvanceCursor(idx) == (idx + 1) % CursorPeriod

\* _select_model: the set of possible results [model, idx], idx being the
\* cursor after the call; more than one result only under "random".
SelectModel(tags, st, idx) ==
  LET c == Candidates(tags, st) IN
  IF c = <<>> THEN {[model |-> NoModel, idx |-> idx]}
  ELSE IF strategy = "round_robin"
       THEN {[model |-> c[(idx % Len(c)) + 1], idx |-> AdvanceCursor(idx)]}
  ELSE IF strategy = "priority"
       THEN {[model |-> PriorityPick(c), idx |-> idx]}
  ELSE IF strategy = "random"
       THEN {[model |-> c[k], idx |-> idx] : k \in 1..Len(c)}
  ELSE IF strategy = "load_balance"
       THEN {[model |-> LoadBalancePick(c, st), idx |-> idx]}
  ELSE {[model |-> c[1], idx |-> idx]}

\* The observer of round-robin selections: the last Len(Models) selections,
\* each with whether every model was available and whether the candidate list
\* was the whole pool.  A call that finds no available model empties it.
LogSelect(log, s, tags, st) ==
  IF strategy # "round_robin" THEN log
  ELSE IF s.model = NoModel THEN <<>>
  ELSE LET e == [m |-> s.model,
                 all |-> Len(AvailableModels(st)) = Len(Models),
                 full |-> Len(Candidates(tags, st)) = Len(Models)]
           l == Append(log, e)
       IN IF Len(l) > Len(Models) THEN Tail(l) ELSE l

\* ------------------------------------------------------------ _make_request
\* A request that is not counted when it starts.
MakeRequestStartUncounted(st, i) == st

\* state["total_requests"] += 1, up to the await of acompletion.
MakeRequestStart(st, i) ==
  [st EXCEPT ![ModelId(i)].total_requests = @ + 1]

\* The statements after a successful acompletion; the response that
\* acompletion returns is taken to hold a first choice.
MakeRequestOk(st, i) ==
  [st EXCEPT ![ModelId(i)].error_count = 0, ![ModelId(i)].last_error = None]

\* The threshold test with > in place of >=.
RetriesExhaustedLate(count, i) == count > Models[i].max_retries

\* if state["error_count"] >= model.max_retries
RetriesExhausted(count, i) == count >= Models[i].max_retries

\* The except branch: the counters, and the availability flag.
MakeRequestFail(st, i, cause) ==
  LET id == ModelId(i)
      n == st[id].error_count + 1
  IN [st EXCEPT ![id].failed_requests = @ + 1,
                ![id].error_count = n,
                ![id].last_error = cause,
                ![id].available = IF RetriesExhausted(n, i) THEN FALSE ELSE @]

\* get_model_stats: success_rate, as the pair of the numerator and the
\* denominator of the quotient.
SuccessRate(state) ==
  [num |-> state.total_requests - state.failed_requests,
   den |-> Max2(1, state.total_requests)]

\* APIError(f"Request to {model.model_id} failed: {e}")
ApiError(i, cause) == [model |-> i, cause |-> cause]
\* last_error = None
NoError == [model |-> NoModel, cause |-> None]

\* ---------------------------------------------------- _request_with_fallback
\* A loop that does not look at attempted_models.
AlreadyAttemptedIgnored(m, att) == FALSE

\* `model in attempted_models`
AlreadyAttempted(m, att) == m \in Range(att)

RECURSIVE FallbackLoop(_, _, _, _, _, _)
\* The for loop from iteration a on, up to its next _make_request or its end:
\* the set of possible results.  No model state changes on the way.
FallbackLoop(a, att, tags, st, idx, log) ==
  IF a >= MaxFallbackAttempts
  THEN {[step |-> "exhausted", attempt |-> a, attempted |-> att,
         model |-> NoModel, idx |-> idx, log |-> log]}
  ELSE UNION {
         IF s.model = NoModel \/ AlreadyAttempted(s.model, att)
         THEN FallbackLoop(a + 1, att, tags, st, s.idx, LogSelect(log, s, tags, st))
         ELSE {[step |-> "request", attempt |-> a,
                attempted |-> Append(att, s.model), model |-> s.model,
                idx |-> s.idx, log |-> LogSelect(log, s, tags, st)]}
         : s \in SelectModel(tags, st, idx) }

\* The caller's view of `raise APIError(f"All models failed. Last error: ...")`
AllModelsFailed(err) == [result |-> "all_models_failed", last |-> err]
\* The caller's view of the bare `raise` when fallback is disabled.
ProviderFailure(err) == [result |-> "provider_failure", last |-> err]
\* The caller's view of a returned text, and of a request still under way.
Returned == [result |-> "text", last |-> NoError]
Pending == [result |-> "pending", last |-> NoError]

\* One result r of FallbackLoop applied to logical request t, from model
\* states st: either the request to r.model is started, or the loop is over.
Proceed(t, r, st, err) ==
  /\ current_model_index' = r.idx
  /\ sel_log' = r.log
  /\ attempt' = [attempt EXCEPT ![t] = r.attempt]
  /\ attempted' = [attempted EXCEPT ![t] = r.attempted]
  /\ last_error' = [last_error EXCEPT ![t] = err]
  /\ IF r.step = "request"
     THEN /\ TotalStarted(st) < MaxRequests
          /\ model_states' = MakeRequestStart(st, r.model)
          /\ pc' = [pc EXCEPT ![t] = "awaiting"]
          /\ outcome' = [outcome EXCEPT ![t] = Pending]
     ELSE /\ model_states' = st
          /\ pc' = [pc EXCEPT ![t] = "raised"]
          /\ outcome' = [outcome EXCEPT ![t] = AllModelsFailed(err)]

\* A caller (analyze_topic_compliance or generate_free_response) enters
\* _request_with_fallback.  Coroutines are interchangeable, so a new logical
\* request takes the lowest slot that is not awaiting.
StartRequest(t, k) ==
  /\ pc[t] \in {"idle", "done", "raised"}
  /\ \A u \in 1..(t - 1) : pc[u] = "awaiting"
  /\ kind' = [kind EXCEPT ![t] = k]
  /\ \E r \in FallbackLoop(0, <<>>, TagsOf(k), model_states,
                           current_model_index, sel_log) :
       Proceed(t, r, model_states, NoError)
  /\ UNCHANGED <<configVars, analysisVars, serviceVars, hc_pc, hc_idx>>

CurrentModel(t) == attempted[t][Len(attempted[t])]

\* acompletion returns; _make_request and _request_with_fallback return.
CompleteOk(t) ==
  /\ pc[t] = "awaiting"
  /\ model_states' = MakeRequestOk(model_states, CurrentModel(t))
  /\ pc' = [pc EXCEPT ![t] = "done"]
  /\ outcome' = [outcome EXCEPT ![t] = Returned]
  /\ UNCHANGED <<configVars, analysisVars, serviceVars, current_model_index, kind, attempt,
                 attempted, last_error, hc_pc, hc_idx, sel_log>>

\* A loop that does not look at fallback_enabled.
RaiseAtOnceNever == FALSE

\* `if not self.router_config.fallback_enabled: raise`
RaiseAtOnce == ~fallback_enabled

\* acompletion raises (a provider error or a timeout): the except branch of
\* _make_request, then the except branch of _request_with_fallback and the
\* following iterations of its loop.
CompleteFail(t, cause) ==
  /\ pc[t] = "awaiting"
  /\ LET i == CurrentModel(t)
         st == MakeRequestFail(model_states, i, cause)
         err == ApiError(i, cause)
     IN IF RaiseAtOnce
        THEN /\ model_states' = st
             /\ pc' = [pc EXCEPT ![t] = "raised"]
             /\ last_error' = [last_error EXCEPT ![t] = err]
             /\ outcome' = [outcome EXCEPT ![t] = ProviderFailure(err)]
             /\ sel_log' = <<>>
             /\ UNCHANGED <<current_model_index, attempt, attempted>>
        ELSE \E r \in FallbackLoop(attempt[t] + 1, attempted[t], TagsOf(kind[t]),
                                   st, current_model_index, <<>>) :
               Proceed(t, r, st, err)
  /\ UNCHANGED <<configVars, analysisVars, serviceVars, kind, hc_pc, hc_idx>>

\* ------------------------------------------------------------- health_check
RECURSIVE NextProbe(_, _)
\* `for model in self.models: if state["available"]: continue`, from position
\* i on: the position of the next model to probe, or 0 when the loop is over.
NextProbe(i, st) ==
  IF i > Len(Models) THEN 0
  ELSE IF st[ModelId(i)].available THEN NextProbe(i + 1, st)
  ELSE i

\* health_check goes on from position i with model states st.
ProbeFrom(i, st) ==
  LET j == NextProbe(i, st) IN
  IF j = 0
  THEN /\ model_states' = st
       /\ hc_pc' = "done"
       /\ hc_idx' = 0
  ELSE /\ TotalStarted(st) < MaxRequests
       /\ model_states' = MakeRequestStart(st, j)
       /\ hc_pc' = "probing"
       /\ hc_idx' = j

HealthCheckStart ==
  /\ hc_pc \in {"idle", "done"}
  /\ ProbeFrom(1, model_states)
  /\ UNCHANGED <<configVars, analysisVars, serviceVars, current_model_index, pc, kind,
                 attempt, attempted, last_error, outcome, sel_log>>

\* A probe that does not set the flag.
ReenableForgotten(st, i) == st

\* state["available"] = True; state["error_count"] = 0
Reenable(st, i) ==
  [st EXCEPT ![ModelId(i)].available = TRUE, ![ModelId(i)].error_count = 0]

\* The probe's acompletion returns.
HealthProbeOk ==
  /\ hc_pc = "probing"
  /\ ProbeFrom(hc_idx + 1, Reenable(MakeRequestOk(model_states, hc_idx), hc_idx))
  /\ UNCHANGED <<configVars, analysisVars, serviceVars, current_model_index, pc, kind,
                 attempt, attempted, last_error, outcome, sel_log>>

\* The probe's acompletion raises; `except Exception` swallows the APIError.
HealthProbeFail(cause) ==
  /\ hc_pc = "probing"
  /\ ProbeFrom(hc_idx + 1, MakeRequestFail(model_states, hc_idx, cause))
  /\ sel_log' = <<>>
  /\ UNCHANGED <<configVars, analysisVars, serviceVars, current_model_index, pc, kind,
                 attempt, attempted, last_error, outcome>>

\* ------------------------------------------------- analyze_topic_compliance
\* A reply is a sequence of tokens: "ws" is whitespace, "fence" the three
\* backquotes, "json" the word json, "obj" the text of one JSON object and
\* "junk" any other text.
Tokens == {"ws", "fence", "json", "obj", "junk"}
\* The longest reply, in tokens.
MaxReplyLen == 3

RECURSIVE SeqsUpTo(_, _)
SeqsUpTo(S, n) ==
  IF n = 0 THEN {<<>>}
  ELSE LET shorter == SeqsUpTo(S, n - 1)
       IN shorter \cup {Append(q, x) : q \in {r \in shorter : Len(r) = n - 1}, x \in S}

Replies == SeqsUpTo(Tokens, MaxReplyLen)

\* The members of the JSON object: <<>> is an absent key, <<v>> the value v;
\* a confidence is counted in tenths.
Payloads ==
  [is_appropriate : {<<>>, <<TRUE>>, <<FALSE>>},
   confidence : {<<>>, <<0 - 5>>, <<0>>, <<5>>, <<10>>, <<15>>}]
NoPayload == [is_appropriate |-> <<>>, confidence |-> <<>>]

RECURSIVE LStrip(_)
LStrip(s) == IF s # <<>> /\ Head(s) = "ws" THEN LStrip(Tail(s)) ELSE s
RECURSIVE RStrip(_)
RStrip(s) ==
  IF s # <<>> /\ s[Len(s)] = "ws" THEN RStrip(SubSeq(s, 1, Len(s) - 1)) ELSE s
\* str.strip()
Strip(s) == RStrip(LStrip(s))

StartsWith(s, p) == Len(s) >= Len(p) /\ SubSeq(s, 1, Len(p)) = p
EndsWith(s, p) == Len(s) >= Len(p) /\ SubSeq(s, Len(s) - Len(p) + 1, Len(s)) = p
DropFirst(s, n) == SubSeq(s, n + 1, Len(s))
DropLast(s, n) == SubSeq(s, 1, Len(s) - n)

\* LiteLLMClient._clean_json_response
CleanJsonResponse(s) ==
  LET r == Strip(s) IN
  IF StartsWith(r, <<"fence">>)
  THEN LET opened == IF StartsWith(r, <<"fence", "json">>)
                     THEN DropFirst(r, 2) ELSE DropFirst(r, 1)
           closed == IF EndsWith(opened, <<"fence">>)
                     THEN DropLast(opened, 1) ELSE opened
       IN Strip(closed)
  ELSE r

\* BaseAiClient._clean_json_from_response
CleanJsonFromResponse(s) ==
  LET r == Strip(s)
      opened == IF StartsWith(r, <<"fence", "json">>) THEN DropFirst(r, 2) ELSE r
      closed == IF EndsWith(opened, <<"fence">>) THEN DropLast(opened, 1) ELSE opened
  IN Strip(closed)

\* json.loads succeeds: the text is one JSON value, whitespace around it allowed.
JsonLoads(s) == Strip(s) = <<"obj">>

\* dict.get(key, default) on a member of the payload
Get(member, default) == IF member = <<>> THEN default ELSE member[1]

NoVerdict == [status |-> "none", is_appropriate |-> TRUE, confidence |-> 0]
Raised == [status |-> "raised", is_appropriate |-> TRUE, confidence |-> 0]
\* TopicAnalysisResult(...): confidence is Field(ge=0.0, le=1.0), and a value
\* outside it makes the constructor raise.
TopicAnalysisResult(appropriate, conf) ==
  IF conf >= 0 /\ conf <= 10
  THEN [status |-> "result", is_appropriate |-> appropriate, confidence |-> conf]
  ELSE Raised

\* The result of the `except (json.JSONDecodeError, KeyError)` branch of
\* LiteLLMClient.analyze_topic_compliance.
LiteLLMParseFailure == TopicAnalysisResult(FALSE, 0)

\* LiteLLMClient.analyze_topic_compliance from the reply on; the reply is a
\* text (the content of the first choice is a string).
LiteLLMAnalyze(r, p) ==
  IF JsonLoads(CleanJsonResponse(r))
  THEN TopicAnalysisResult(Get(p.is_appropriate, FALSE), Get(p.confidence, 0))
  ELSE LiteLLMParseFailure

\* The result of the `except (json.JSONDecodeError, KeyError, TypeError)`
\* branch of BaseAiClient.analyze_topic_compliance.
BaseParseFailure == TopicAnalysisResult(TRUE, 0)

\* BaseAiClient.analyze_topic_compliance from the reply on; an empty reply
\* raises APIError, which the method re-raises.
BaseAnalyze(r, p) ==
  IF r = <<>> THEN Raised
  ELSE IF JsonLoads(CleanJsonFromResponse(r))
  THEN TopicAnalysisResult(Get(p.is_appropriate, TRUE), Get(p.confidence, 5))
  ELSE BaseParseFailure

\* The client parses the reply of the model and answers its caller.
AnalyzeTopicCompliance ==
  /\ verdict = NoVerdict
  /\ verdict' = IF client = "litellm" THEN LiteLLMAnalyze(reply, payload)
                ELSE BaseAnalyze(reply, payload)
  /\ UNCHANGED <<configVars, model_states, current_model_index, pc, kind, attempt,
                 attempted, last_error, outcome, hc_pc, hc_idx, sel_log,
                 client, reply, payload, serviceVars>>

\* -------------------------------------------------------- violation records
\* Keys of settings.chat_topics, the catalog of topics ("Osnovnoy chat" and
\* "Reyt" stand for the first two keys of the dictionary, transliterated), and
\* the name of a forum topic that the catalog does not hold.
ChatTopics == {"Osnovnoy chat", "Reyt"}
TopicNames == ChatTopics \cup {"Fludilka"}

\* settings.VIOLATION_MAX_LENGTH and settings.VIOLATION_TIME_WINDOW, the
\* latter in units of the clock; both are read from the environment.
VIOLATION_MAX_LENGTH == 3
VIOLATION_TIME_WINDOW == 2

\* Calls of record_violation and reset_violations in one behaviour, and the
\* last value of the clock.
MaxEvents == 4
MaxClock == 3

\* dict[key] = value
Put(d, key, value) ==
  [k \in (DOMAIN d) \cup {key} |-> IF k = key THEN value ELSE d[k]]

ViolationRecord(user_id, topic_name, message_id, suggested_topic, timestamp) ==
  [user_id |-> user_id, topic_name |-> topic_name, message_id |-> message_id,
   suggested_topic |-> suggested_topic, timestamp |-> timestamp]

DequeAppendUnbounded(d, x) == Append(d, x)
\* deque(maxlen = VIOLATION_MAX_LENGTH).append(x)
DequeAppend(d, x) ==
  IF Len(d) >= VIOLATION_MAX_LENGTH THEN Append(Tail(d), x) ELSE Append(d, x)

RecordViolationLost(vr, user_id, topic_name, message_id, suggested_topic, clock) ==
  vr
\* ChatManager.record_violation at the time `clock`.
RecordViolation(vr, user_id, topic_name, message_id, suggested_topic, clock) ==
  LET d == IF topic_name \in DOMAIN vr THEN vr[topic_name] ELSE <<>>
  IN Put(vr, topic_name,
         DequeAppend(d, ViolationRecord(user_id, topic_name, message_id,
                                        suggested_topic, clock)))

\* ChatManager.get_recent_violations with the default time window.
GetRecentViolations(vr, topic_name, clock) ==
  IF topic_name \notin DOMAIN vr THEN <<>>
  ELSE LET cutoff_time == clock - VIOLATION_TIME_WINDOW
           Recent(v) == v.timestamp > cutoff_time
       IN SelectSeq(vr[topic_name], Recent)

GetViolationCount(vr, topic_name, clock) ==
  Len(GetRecentViolations(vr, topic_name, clock))

ResetViolationsAll(vr, topic_name) ==
  [k \in (DOMAIN vr) \cup {topic_name} |-> <<>>]
\* ChatManager.reset_violations
ResetViolations(vr, topic_name) == Put(vr, topic_name, <<>>)

NoCount == [topic |-> None, count |-> 0 - 1]
LogRecord(log, topic_name, clock) ==
  Append(log, [op |-> "record", topic |-> topic_name, timestamp |-> clock])
LogReset(log, topic_name, clock) ==
  Append(log, [op |-> "reset", topic |-> topic_name, timestamp |-> clock])

\* An id of the author of a message, and the id of the next message of the
\* chat: Telegram numbers the messages of a chat upwards.
UserId == 7
NextMessageId == Len(tracker_log) + 1

\* A call of record_violation; the suggested topic is another catalog topic.
RecordViolationCall(topic_name, suggested_topic) ==
  /\ Len(tracker_log) < MaxEvents
  /\ violation_records' = RecordViolation(violation_records, UserId, topic_name,
                                          NextMessageId, suggested_topic, now)
  /\ tracker_log' = LogRecord(tracker_log, topic_name, now)
  /\ last_count' = NoCount
  /\ UNCHANGED <<now, routerVars, chatVars, poolVars, mentionVars>>

\* A call of reset_violations.
ResetViolationsCall(topic_name) ==
  /\ Len(tracker_log) < MaxEvents
  /\ violation_records' = ResetViolations(violation_records, topic_name)
  /\ tracker_log' = LogReset(tracker_log, topic_name, now)
  /\ last_count' = NoCount
  /\ UNCHANGED <<now, routerVars, chatVars, poolVars, mentionVars>>

\* A call of get_violation_count.
GetViolationCountCall(topic_name) ==
  /\ last_count' = [topic |-> topic_name,
                    count |-> GetViolationCount(violation_records, topic_name, now)]
  /\ UNCHANGED <<violation_records, now, tracker_log, routerVars, chatVars,
                 poolVars, mentionVars>>

\* Time passes between two calls.
Tick ==
  /\ now < MaxClock
  /\ now' = now + 1
  /\ last_count' = NoCount
  /\ UNCHANGED <<violation_records, tracker_log, routerVars, chatVars, poolVars,
                 mentionVars>>

TrackerInitial ==
  /\ violation_records = <<>>
  /\ now = 0
  /\ tracker_log = <<>>
  /\ last_count = NoCount

\* ----------------------------------------------------------- group messages
\* message_thread_id of a message outside every thread (None), and the thread
\* ids of the forum.
NoThread == 0
MaxThreadId == 2
ThreadIds == 1..MaxThreadId
\* Test messages that check_topic_by_id may have sent and not yet deleted.
MaxProbeDepth == 2

\* icon_custom_emoji_id of a forum topic, and settings.REACTION_EMOJI.
CustomEmoji == "custom_emoji_1"
REACTION_EMOJI == "default_emoji"

\* forum_topic_created of a message: absent, or the name and the icon of the
\* topic that was created.
NoForumTopic == [name |-> None, icon_custom_emoji_id |-> None]
ForumTopics ==
  { [name |-> "Osnovnoy chat", icon_custom_emoji_id |-> None],
    [name |-> "Reyt", icon_custom_emoji_id |-> CustomEmoji],
    [name |-> "Fludilka", icon_custom_emoji_id |-> None] }

\* aiogram Message, as far as the handlers read it.  reply_to_message holds
\* the forum_topic_created of the message replied to (absent also when the
\* message is no reply).
Message(id, created, replied, thread, is_topic) ==
  [message_id |-> id, forum_topic_created |-> created,
   reply_to_message |-> replied, message_thread_id |-> thread,
   is_topic_message |-> is_topic]
NoMessage == Message(0, NoForumTopic, NoForumTopic, NoThread, FALSE)
Messages(id) ==
  { Message(id, c, r, t, f) : c \in {NoForumTopic} \cup ForumTopics,
                              r \in {NoForumTopic} \cup ForumTopics,
                              t \in {NoThread} \cup ThreadIds, f \in BOOLEAN }
\* The message that bot.send_message returns for a test message sent to a
\* thread: a text message of that thread; Telegram decides the rest.
SentMessages(id, thread) ==
  { Message(id, NoForumTopic, r, thread, f) :
      r \in {NoForumTopic} \cup ForumTopics, f \in BOOLEAN }

TopicInfo(name, topic_id, custom_emoji_id) ==
  [name |-> name, topic_id |-> topic_id, custom_emoji_id |-> custom_emoji_id]
NoTopic == TopicInfo(None, NoThread, None)

\* The order of the keys of existing_topics (the order of settings.chat_topics,
\* then the order of insertion).
TopicOrder == <<"Osnovnoy chat", "Reyt", "Fludilka">>
Position(name) == CHOOSE i \in 1..Len(TopicOrder) : TopicOrder[i] = name

\* existing_topics_by_id.get(thread): of the topics with this topic_id the
\* last one of the dictionary; NoTopic when there is none.
ExistingTopicsById(et, thread) ==
  LET hits == {n \in DOMAIN et : et[n].topic_id = thread}
  IN IF hits = {} THEN NoTopic
     ELSE et[CHOOSE n \in hits : \A o \in hits : Position(o) <= Position(n)]

MatchCaseReplyFirst(m, et) ==
  IF m.reply_to_message # NoForumTopic THEN 2
  ELSE IF m.forum_topic_created # NoForumTopic THEN 1
  ELSE IF /\ m.message_thread_id # NoThread
          /\ ExistingTopicsById(et, m.message_thread_id) # NoTopic THEN 3
  ELSE IF m.message_thread_id # NoThread /\ m.is_topic_message THEN 4
  ELSE 5
\* The case of the match statement of get_topic_from_message that a message
\* takes.
MatchCase(m, et) ==
  IF m.forum_topic_created # NoForumTopic THEN 1
  ELSE IF m.reply_to_message # NoForumTopic THEN 2
  ELSE IF /\ m.message_thread_id # NoThread
          /\ ExistingTopicsById(et, m.message_thread_id) # NoTopic THEN 3
  ELSE IF m.message_thread_id # NoThread /\ m.is_topic_message THEN 4
  ELSE 5

\* topic_name and custom_emoji_id as the cases 1, 2, 3 and 5 set them.
CaseTopicName(m, et, c) ==
  IF c = 1 THEN m.forum_topic_created.name
  ELSE IF c = 2 THEN m.reply_to_message.name
  ELSE IF c = 3 THEN ExistingTopicsById(et, m.message_thread_id).name
  ELSE "Osnovnoy chat"
CaseCustomEmoji(m, c) ==
  IF c = 1 THEN m.forum_topic_created.icon_custom_emoji_id
  ELSE IF c = 2 THEN m.reply_to_message.icon_custom_emoji_id
  ELSE None

InCatalogOrNamed(name) == name # None
\* topic_name in settings.chat_topics
InCatalog(name) == name \in ChatTopics

\* The end of get_topic_from_message: None for a name outside the catalog.
TopicFromName(m, name, custom_emoji_id) ==
  IF InCatalog(name) THEN TopicInfo(name, m.message_thread_id, custom_emoji_id)
  ELSE NoTopic

\* check_topic_by_id returned `found` to case 4 of get_topic_from_message.
LearnTopicId(et, found) ==
  IF found = NoTopic THEN et
  ELSE [et EXCEPT ![found.name].topic_id = found.topic_id]

\* ChatManager.update_topic_custom_emoji
UpdateTopicCustomEmoji(et, m) ==
  LET c == MatchCase(m, et)
      name == IF c \in {1, 2} THEN CaseTopicName(m, et, c) ELSE None
      emoji == CaseCustomEmoji(m, c)
  IN IF name # None /\ emoji # None /\ name \in DOMAIN et
     THEN [et EXCEPT ![name].custom_emoji_id = emoji]
     ELSE et

\* A call to Telegram or to the AI client, and how it ended.
Call(op, arg) == [op |-> op, arg |-> arg, error |-> "pending"]
Ended(cs, error) == [cs EXCEPT ![Len(cs)].error = error]
\* What a call to Telegram can raise: TelegramBadRequest, or another
\* Exception (TelegramForbiddenError, a network error, a timeout).
Exceptions == {"TelegramBadRequest", "Exception"}

\* The result of analyze_message_topic.
NoResult == [status |-> "none", is_appropriate |-> TRUE, suggested_topic |-> None]
AnalysisFailed ==
  [status |-> "failed", is_appropriate |-> TRUE, suggested_topic |-> None]
AnalysisResult(is_appropriate, suggested_topic) ==
  [status |-> "result", is_appropriate |-> is_appropriate,
   suggested_topic |-> suggested_topic]
\* The results analyze_topic_compliance can return: the LiteLLM client builds
\* its result without suggested_topic, the other clients take it from the
\* reply of the model.
Verdicts(c) ==
  IF c = "litellm" THEN {AnalysisResult(a, None) : a \in BOOLEAN}
  ELSE {AnalysisResult(a, s) : a \in BOOLEAN, s \in TopicNames \cup {None}}

\* The tables settings.reaction_levels: the one of the source, and two edits
\* of it that escalate.
DefaultLevels == [c \in 1..7 |-> "reaction_only"]
ReactionTables ==
  { DefaultLevels,
    <<"reaction_only", "polite_warning", "angry_warning">>,
    (2 :> "polite_warning") }

ResponseTypeSilent(levels, count) == "reaction_only"
\* settings.reaction_levels.get(violation_count, "reaction_only")
ResponseType(levels, count) ==
  IF count \in DOMAIN levels THEN levels[count] ELSE "reaction_only"

SameTopicNever(suggested_topic, current_topic_name) == FALSE
\* suggested_topic == current_topic_name
SameTopic(suggested_topic, current_topic_name) ==
  suggested_topic = current_topic_name

HasCustomEmojiNever(et, suggested_topic) == FALSE
\* not (not topic_info or not topic_info.custom_emoji_id)
HasCustomEmoji(et, suggested_topic) ==
  /\ suggested_topic \in DOMAIN et
  /\ et[suggested_topic].custom_emoji_id # None

CaughtBadRequestOnly(e) == e = "TelegramBadRequest"
\* except Exception of handle_topic_violation
CaughtByHandler(e) == e \in Exceptions
\* except TelegramBadRequest of _send_polite_warning / _send_angry_warning
CaughtByWarning(e) == e = "TelegramBadRequest"

\* The part of the state a step of the handler never writes.
HandlerFrame ==
  UNCHANGED <<routerVars, poolVars, mentionVars, reaction_levels, now,
              last_count>>

\* handle_group_message returns.
Return(h) == h_pc' = "done" /\ htv' = h

\* analyze_message_topic up to its await of analyze_topic_compliance.  Every
\* message the filters pass has a text and an author.  A name that is no key of
\* existing_topics is added by add_topic_from_message.
AnalyzeMessageTopic(m, t, et, cs) ==
  LET updated == UpdateTopicCustomEmoji(et, m)
  IN /\ existing_topics' = IF t.name \in DOMAIN updated THEN updated
                           ELSE Put(updated, t.name, t)
     /\ calls' = Append(cs, Call("analyze_topic_compliance", t.name))
     /\ h_pc' = "analyzing"
     /\ UNCHANGED <<result, violation_count, response_type, htv,
                    violation_records, tracker_log>>

\* handle_group_message once get_topic_from_message has returned t.
TopicResolved(m, t, et, cs) ==
  IF t = NoTopic
  THEN /\ Return("not_called")
       /\ existing_topics' = et
       /\ calls' = cs
       /\ UNCHANGED <<result, violation_count, response_type,
                      violation_records, tracker_log>>
  ELSE AnalyzeMessageTopic(m, t, et, cs)

\* A message of the target group reaches handle_group_message, which runs
\* get_topic_from_message up to the first await.
HandleGroupMessage(m) ==
  /\ h_pc = "idle"
  /\ msg' = m
  /\ LET c == MatchCase(m, existing_topics)
     IN /\ rule' = c
        /\ IF c = 4
           THEN /\ calls' = Append(calls, Call("send_message", m.message_thread_id))
                /\ h_pc' = "probing"
                /\ UNCHANGED <<resolved_name, topic, existing_topics, result,
                               violation_count, response_type, htv,
                               violation_records, tracker_log>>
           ELSE LET name == CaseTopicName(m, existing_topics, c)
                    t == TopicFromName(m, name, CaseCustomEmoji(m, c))
                IN /\ resolved_name' = name
                   /\ topic' = t
                   /\ TopicResolved(m, t, existing_topics, calls)
  /\ UNCHANGED probe_depth
  /\ HandlerFrame

\* get_topic_from_message of the handled message continues with what
\* check_topic_by_id returned.
ProbeReturned(found, et, cs) ==
  LET t == TopicFromName(msg, found.name, None)
  IN /\ resolved_name' = found.name
     /\ topic' = t
     /\ TopicResolved(msg, t, LearnTopicId(et, found), cs)

\* bot.send_message of check_topic_by_id raises: the check returns None.
ProbeSendFails(e) ==
  /\ h_pc = "probing"
  /\ IF probe_depth = 0
     THEN ProbeReturned(NoTopic, existing_topics, Ended(calls, e))
     ELSE /\ topic' = NoTopic
          /\ calls' = Append(Ended(calls, e),
                             Call("delete_message", msg.message_thread_id))
          /\ h_pc' = "deleting"
          /\ UNCHANGED <<resolved_name, existing_topics, result, violation_count,
                         response_type, htv, violation_records, tracker_log>>
  /\ UNCHANGED <<msg, rule, probe_depth>>
  /\ HandlerFrame

\* bot.send_message returns the test message; check_topic_by_id gives it to
\* get_topic_from_message, which may check the thread once more, and then
\* deletes it.
ProbeSent(sent) ==
  /\ h_pc = "probing"
  /\ probe_depth < MaxProbeDepth
  /\ probe_depth' = probe_depth + 1
  /\ LET c == MatchCase(sent, existing_topics)
     IN IF c = 4
        THEN /\ probe_depth + 1 < MaxProbeDepth
             /\ calls' = Append(Ended(calls, "ok"),
                                Call("send_message", sent.message_thread_id))
             /\ UNCHANGED <<h_pc, topic>>
        ELSE /\ topic' = TopicFromName(sent,
                                       CaseTopicName(sent, existing_topics, c),
                                       CaseCustomEmoji(sent, c))
             /\ calls' = Append(Ended(calls, "ok"),
                                Call("delete_message", sent.message_thread_id))
             /\ h_pc' = "deleting"
  /\ UNCHANGED <<msg, rule, resolved_name, existing_topics, result,
                 violation_count, response_type, htv, violation_records,
                 tracker_log>>
  /\ HandlerFrame

\* bot.delete_message returns or raises (the failure is logged): the check
\* returns its topic to the get_topic_from_message that called it.
ProbeDeleted(ended) ==
  /\ h_pc = "deleting"
  /\ probe_depth' = probe_depth - 1
  /\ IF probe_depth = 1
     THEN ProbeReturned(topic, existing_topics, Ended(calls, ended))
     ELSE /\ topic' = TopicFromName(msg, topic.name, None)
          /\ existing_topics' = LearnTopicId(existing_topics, topic)
          /\ calls' = Append(Ended(calls, ended),
                             Call("delete_message", msg.message_thread_id))
          /\ UNCHANGED <<h_pc, resolved_name, result, violation_count,
                         response_type, htv, violation_records, tracker_log>>
  /\ UNCHANGED <<msg, rule>>
  /\ HandlerFrame

\* What analyze_topic_compliance can raise: the APIError of a failed provider
\* or of a pool whose models all failed, and the ValidationError of a result
\* that cannot be built.
AiErrors == {"APIError", "ValidationError"}

CaughtByAnalysisNever(e) == FALSE
\* except Exception of analyze_message_topic
CaughtByAnalysis(e) == e \in AiErrors

\* analyze_topic_compliance raises: analyze_message_topic returns None and
\* the handler returns.
AnalysisRaises(e) ==
  /\ h_pc = "analyzing"
  /\ result' = AnalysisFailed
  /\ calls' = Ended(calls, e)
  /\ IF CaughtByAnalysis(e) THEN Return("not_called")
     ELSE h_pc' = "raised" /\ UNCHANGED htv
  /\ UNCHANGED <<msg, rule, resolved_name, topic, probe_depth, existing_topics,
                 violation_count, response_type, violation_records,
                 tracker_log>>
  /\ HandlerFrame

\* _add_topic_reaction up to its first await.
AddTopicReaction(et, suggested_topic, cs) ==
  IF HasCustomEmoji(et, suggested_topic)
  THEN /\ calls' = Append(cs, Call("set_message_reaction",
                                   et[suggested_topic].custom_emoji_id))
       /\ h_pc' = "reacting_custom"
       /\ htv' = "running"
  ELSE /\ calls' = Append(cs, Call("set_message_reaction", REACTION_EMOJI))
       /\ h_pc' = "reacting_default"
       /\ htv' = "running"

\* handle_topic_violation up to its first await, or to its return.
HandleTopicViolation(vr, et, suggested_topic, current_topic_name, cs) ==
  LET count == GetViolationCount(vr, current_topic_name, now)
      type == ResponseType(reaction_levels, count)
  IN /\ violation_count' = count
     /\ response_type' = type
     /\ IF SameTopic(suggested_topic, current_topic_name)
        THEN calls' = cs /\ Return("returned")
        ELSE IF type = "reaction_only"
        THEN AddTopicReaction(et, suggested_topic, cs)
        ELSE IF type = "polite_warning"
        THEN /\ calls' = Append(cs, Call("reply", "polite_warning"))
             /\ h_pc' = "replying"
             /\ htv' = "running"
        ELSE IF type = "angry_warning"
        THEN /\ calls' = Append(cs, Call("reply", "angry_warning"))
             /\ h_pc' = "replying"
             /\ htv' = "running"
        ELSE calls' = cs /\ Return("returned")

\* analyze_topic_compliance returns v: analyze_message_topic records the
\* violation and returns v, and the handler calls handle_topic_violation.
AnalysisReturns(v) ==
  /\ h_pc = "analyzing"
  /\ v \in Verdicts(client)
  /\ result' = v
  /\ LET current_topic == topic.name
         violation == /\ ~v.is_appropriate
                      /\ v.suggested_topic # None
                      /\ v.suggested_topic # current_topic
         vr == IF violation
               THEN RecordViolation(violation_records, UserId, topic.name,
                                    msg.message_id, v.suggested_topic, now)
               ELSE violation_records
         cs == Ended(calls, "ok")
     IN /\ violation_records' = vr
        /\ tracker_log' = IF violation
                          THEN LogRecord(tracker_log, topic.name, now)
                          ELSE tracker_log
        /\ IF ~v.is_appropriate /\ v.suggested_topic # None
           THEN HandleTopicViolation(vr, existing_topics, v.suggested_topic,
                                     topic.name, cs)
           ELSE /\ calls' = cs
                /\ Return("not_called")
                /\ UNCHANGED <<violation_count, response_type>>
  /\ UNCHANGED <<msg, rule, resolved_name, topic, probe_depth, existing_topics>>
  /\ HandlerFrame

ResponseFrame ==
  /\ UNCHANGED <<msg, rule, resolved_name, topic, probe_depth, existing_topics,
                 result, violation_count, response_type, violation_records,
                 tracker_log>>
  /\ HandlerFrame

\* set_message_reaction with the custom emoji returns.
CustomReactionOk ==
  /\ h_pc = "reacting_custom"
  /\ calls' = Ended(calls, "ok")
  /\ Return("returned")
  /\ ResponseFrame

\* set_message_reaction with the custom emoji raises: _add_topic_reaction
\* falls back to _add_reaction.
CustomReactionFails(e) ==
  /\ h_pc = "reacting_custom"
  /\ calls' = Append(Ended(calls, e), Call("set_message_reaction", REACTION_EMOJI))
  /\ h_pc' = "reacting_default"
  /\ UNCHANGED htv
  /\ ResponseFrame

\* set_message_reaction with the default emoji returns, or raises and
\* _add_reaction logs the failure.
DefaultReactionEnds(ended) ==
  /\ h_pc = "reacting_default"
  /\ calls' = Ended(calls, ended)
  /\ Return("returned")
  /\ ResponseFrame

\* message.reply returns.
ReplyOk ==
  /\ h_pc = "replying"
  /\ calls' = Ended(calls, "ok")
  /\ Return("returned")
  /\ ResponseFrame

\* message.reply raises: the warning catches TelegramBadRequest,
\* handle_topic_violation every other Exception.
ReplyFails(e) ==
  /\ h_pc = "replying"
  /\ calls' = Ended(calls, e)
  /\ Return(IF CaughtByWarning(e) \/ CaughtByHandler(e) THEN "returned"
            ELSE "raised")
  /\ ResponseFrame

\* Messages handled at the same time as the tracked one whose violation may be
\* recorded while the tracked handler is suspended.
MaxOthers == 1

\* The handler of another message of the group runs, between two steps of
\* the tracked handler, its step AnalysisReturns for a violation in topic
\* topic_name: the record is what that step leaves in the shared state.
OtherMessageRecorded(topic_name, suggested_topic) ==
  /\ h_pc \notin {"idle", "done", "raised"}
  /\ NextMessageId + 1 <= msg.message_id + MaxOthers + 1
  /\ violation_records' = RecordViolation(violation_records, UserId, topic_name,
                                          NextMessageId + 1, suggested_topic, now)
  /\ tracker_log' = LogRecord(tracker_log, topic_name, now)
  /\ UNCHANGED <<now, last_count, routerVars, chatVars, poolVars, mentionVars>>

\* k violations of each catalog topic recorded by earlier messages.
RECURSIVE EarlierViolations(_, _, _)
EarlierViolations(vr, log, k) ==
  IF k = 0 THEN [records |-> vr, log |-> log]
  ELSE LET vr1 == RecordViolation(vr, UserId, "Osnovnoy chat", Len(log) + 1,
                                  "Reyt", 0)
           log1 == LogRecord(log, "Osnovnoy chat", 0)
           vr2 == RecordViolation(vr1, UserId, "Reyt", Len(log1) + 1,
                                  "Osnovnoy chat", 0)
       IN EarlierViolations(vr2, LogRecord(log1, "Reyt", 0), k - 1)

\* existing_topics as the constructor makes it.
ConstructedTopics == [n \in ChatTopics |-> TopicInfo(n, NoThread, None)]

ChatInitial ==
  /\ existing_topics = ConstructedTopics
  /\ reaction_levels = DefaultLevels
  /\ msg = NoMessage
  /\ h_pc = "idle"
  /\ rule = 0
  /\ resolved_name = None
  /\ topic = NoTopic
  /\ probe_depth = 0
  /\ result = NoResult
  /\ violation_count = 0
  /\ response_type = None
  /\ htv = "not_called"
  /\ calls = <<>>

\* ---------------------------------------------------- construction of a pool
\* A model descriptor: provider, model name and credential ("" for a model
\* whose API key is not configured).
Descriptor(provider, name, api_key) ==
  [provider |-> provider, name |-> name, api_key |-> api_key]
Descriptors ==
  { Descriptor("gemini", "flash", "key_1"), Descriptor("gemini", "flash", "key_2"),
    Descriptor("groq", "llama", "key_1"), Descriptor("groq", "llama", "") }
\* The longest list of descriptors a pool is constructed from.
MaxPoolSize == 2

\* How a pool is constructed: ModelPoolConfig(models, providers) or with its
\* argument providers left out, LiteLLMClient(models = ...) or
\* LiteLLMClient(config_path = ...) with a file that lists the models.
Constructors ==
  {"ModelPoolConfig", "ModelPoolConfig_without_providers",
   "LiteLLMClient_models", "LiteLLMClient_config_path"}

\* ModelConfig of models/ai_config.py cannot be made without an API key.
PoolArguments ==
  { a \in [constructor : Constructors,
           models : SeqsUpTo(Descriptors, MaxPoolSize)] :
      a.constructor \in {"ModelPoolConfig", "ModelPoolConfig_without_providers"}
        => \A i \in 1..Len(a.models) : a.models[i].api_key # "" }
NoArguments == [constructor |-> None, models |-> <<>>]

NoPool == [status |-> "none", error |-> None, models |-> <<>>]
Constructed(models) == [status |-> "constructed", error |-> None, models |-> models]
Failed(error) == [status |-> "raised", error |-> error, models |-> <<>>]

\* len(model_ids) != len(set(model_ids))
HasDuplicates(models) ==
  \E i, j \in 1..Len(models) : i # j /\ models[i] = models[j]

\* ModelPoolConfig.__init__ and __post_init__
ModelPoolConfigInit(models, with_providers) ==
  IF ~with_providers THEN Failed("TypeError")
  ELSE IF models = <<>> THEN Failed("ValueError")
  ELSE IF HasDuplicates(models) THEN Failed("ValueError")
  ELSE Constructed(models)

\* LiteLLMClient._load_models_from_config for a file that exists: a model
\* without an API key is skipped.
LoadModelsFromConfig(entries) ==
  LET Keyed(d) == d.api_key # "" IN SelectSeq(entries, Keyed)

\* LiteLLMClient.__init__
LiteLLMClientInit(config_path, models) ==
  IF config_path THEN Constructed(LoadModelsFromConfig(models))
  ELSE IF models # <<>> THEN Constructed(models)
  ELSE Failed("ValueError")

\* A pool is constructed from the arguments.
ConstructPool ==
  /\ pool = NoPool
  /\ pool' = IF pool_args.constructor = "ModelPoolConfig"
             THEN ModelPoolConfigInit(pool_args.models, TRUE)
             ELSE IF pool_args.constructor = "ModelPoolConfig_without_providers"
             THEN ModelPoolConfigInit(pool_args.models, FALSE)
             ELSE LiteLLMClientInit(
                    pool_args.constructor = "LiteLLMClient_config_path",
                    pool_args.models)
  /\ UNCHANGED <<pool_args, listed, routerVars, trackerVars, chatVars,
                 mentionVars>>

\* No call of get_all_available_models yet.
NotListed == <<"not_listed">>

\* ModelPoolManager.get_all_available_models: f"{provider}:{model_name}" of
\* every model of the pool (a pair stands for the joined string).
GetAllAvailableModels(models) ==
  [i \in 1..Len(models) |-> <<models[i].provider, models[i].name>>]

\* A ModelPoolManager made with the constructed ModelPoolConfig lists its
\* models.
GetAllAvailableModelsCall ==
  /\ pool.status = "constructed"
  /\ pool_args.constructor = "ModelPoolConfig"
  /\ listed = NotListed
  /\ listed' = GetAllAvailableModels(pool.models)
  /\ UNCHANGED <<pool_args, pool, routerVars, trackerVars, chatVars,
                 mentionVars>>

\* No pool under construction: the pool of the router is Models.
PoolInitial ==
  /\ pool_args = NoArguments
  /\ pool = NoPool
  /\ listed = NotListed

\* ----------------------------------------------------------------- mentions
\* A text is a sequence of tokens, "ws" whitespace and "junk" other text; the
\* longest content of a reply of the model, in tokens.
MaxTextLen == 2
\* The value None where a text is expected.
NoText == <<"None">>
Contents == SeqsUpTo({"ws", "junk"}, MaxTextLen) \cup {NoText}

\* The fixed phrases: the reply of the except branch of handle_bot_mention,
\* and what BaseAiClient.generate_free_response returns for an empty reply
\* and from its except branch.
MENTION_ERROR == <<"Izvinite, proizoshla oshibka pri obrabotke">>
CANNOT_ANSWER == <<"Izvinite, ne mogu sformulirovat otvet">>
GENERATION_ERROR == <<"Izvinite, proizoshla oshibka pri generatsii">>
FixedPhrases == {MENTION_ERROR, CANNOT_ANSWER, GENERATION_ERROR}

\* What the AI layer gives generate_free_response: the content of the reply
\* of the model, or the APIError of a failed provider or pool.
Generation(status, content) == [status |-> status, content |-> content]
NotGenerated == Generation("none", NoText)
Generations ==
  {Generation("content", c) : c \in Contents}
    \cup {Generation("raised", NoText)}

\* What generate_free_response gives handle_bot_mention.
FreeResponse(status, text) == [status |-> status, text |-> text]
NoResponse == FreeResponse("none", NoText)

\* LiteLLMClient.generate_free_response from the await of
\* _request_with_fallback on: its result or its APIError, as they are.
LiteLLMFreeResponse(g) ==
  IF g.status = "raised" THEN FreeResponse("raised", NoText)
  ELSE FreeResponse("returned", g.content)

\* BaseAiClient.generate_free_response from the await of _generate_text on.
BaseFreeResponse(g) ==
  IF g.status = "raised" THEN FreeResponse("returned", GENERATION_ERROR)
  ELSE IF g.content # NoText /\ g.content # <<>>
  THEN FreeResponse("returned", Strip(g.content))
  ELSE FreeResponse("returned", CANNOT_ANSWER)

\* Telegram sends a text that is not empty once trimmed; message.reply
\* raises for any other (a validation error for None, a TelegramBadRequest
\* for an empty text).
Deliverable(text) == text # NoText /\ Strip(text) # <<>>

ReplyCall(text) == [text |-> text, error |-> "pending"]

CaughtByMentionNever(e) == FALSE
\* except Exception of handle_bot_mention
CaughtByMention(e) == e \in Exceptions \cup AiErrors

MentionFrame == UNCHANGED <<routerVars, trackerVars, chatVars, poolVars>>

\* A text message that mentions the bot (or that the random reply picked)
\* reaches handle_bot_mention, which awaits generate_free_response; the
\* filters of the handler pass no message without a text.
HandleBotMention ==
  /\ mention_pc = "idle"
  /\ mention_pc' = "generating"
  /\ UNCHANGED <<generated, response, replies>>
  /\ MentionFrame

\* The except branch of handle_bot_mention for the exception e.
MentionExcept(e, rs) ==
  IF CaughtByMention(e)
  THEN /\ replies' = Append(rs, ReplyCall(MENTION_ERROR))
       /\ mention_pc' = "apologizing"
  ELSE /\ replies' = rs
       /\ mention_pc' = "raised"

\* generate_free_response returns or raises; the handler replies with what
\* it returned.
GenerationEnds(g) ==
  /\ mention_pc = "generating"
  /\ generated' = g
  /\ LET r == IF client = "litellm" THEN LiteLLMFreeResponse(g)
              ELSE BaseFreeResponse(g)
     IN /\ response' = r
        /\ IF r.status = "raised" THEN MentionExcept("APIError", replies)
           ELSE /\ replies' = Append(replies, ReplyCall(r.text))
                /\ mention_pc' = "replying"
  /\ MentionFrame

\* message.reply(response) returns, or raises into the except branch.
ReplyEnds(ended) ==
  /\ mention_pc = "replying"
  /\ ended = "ok" => Deliverable(replies[Len(replies)].text)
  /\ IF ended = "ok"
     THEN replies' = Ended(replies, "ok") /\ mention_pc' = "done"
     ELSE MentionExcept(ended, Ended(replies, ended))
  /\ UNCHANGED <<generated, response>>
  /\ MentionFrame

\* The message.reply of the except branch returns, or raises out of the
\* handler.
ApologyEnds(ended) ==
  /\ mention_pc = "apologizing"
  /\ replies' = Ended(replies, ended)
  /\ mention_pc' = IF ended = "ok" THEN "done" ELSE "raised"
  /\ UNCHANGED <<generated, response>>
  /\ MentionFrame

MentionInitial ==
  /\ mention_pc = "idle"
  /\ generated = NotGenerated
  /\ response = NoResponse
  /\ replies = <<>>

ServicesInitial ==
  TrackerInitial /\ ChatInitial /\ PoolInitial /\ MentionInitial

\* ------------------------------------------------------------ specification
InitialState ==
  [available |-> TRUE, last_error |-> None, error_count |-> 0,
   total_requests |-> 0, failed_requests |-> 0]

Init ==
  /\ config = "distinct"
  /\ strategy \in Strategies
  /\ fallback_enabled \in BOOLEAN
  /\ model_states = [id \in ModelIds |-> InitialState]
  /\ current_model_index = 0
  /\ pc = [t \in Tasks |-> "idle"]
  /\ kind = [t \in Tasks |-> "classification"]
  /\ attempt = [t \in Tasks |-> 0]
  /\ attempted = [t \in Tasks |-> <<>>]
  /\ last_error = [t \in Tasks |-> NoError]
  /\ outcome = [t \in Tasks |-> Pending]
  /\ hc_pc = "idle"
  /\ hc_idx = 0
  /\ sel_log = <<>>
  /\ client = "litellm"
  /\ reply = <<>>
  /\ payload = NoPayload
  /\ verdict = NoVerdict
  /\ ServicesInitial

Next ==
  \/ \E t \in Tasks, k \in Kinds : StartRequest(t, k)
  \/ \E t \in Tasks : CompleteOk(t)
  \/ \E t \in Tasks, c \in Causes : CompleteFail(t, c)
  \/ HealthCheckStart
  \/ HealthProbeOk
  \/ \E c \in Causes : HealthProbeFail(c)

Spec == Init /\ [][Next]_vars

\* The router over the pool with the twin models.
InitTwins ==
  /\ config = "twins"
  /\ strategy \in Strategies
  /\ fallback_enabled \in BOOLEAN
  /\ model_states = [id \in ModelIds |-> InitialState]
  /\ current_model_index = 0
  /\ pc = [t \in Tasks |-> "idle"]
  /\ kind = [t \in Tasks |-> "classification"]
  /\ attempt = [t \in Tasks |-> 0]
  /\ attempted = [t \in Tasks |-> <<>>]
  /\ last_error = [t \in Tasks |-> NoError]
  /\ outcome = [t \in Tasks |-> Pending]
  /\ hc_pc = "idle"
  /\ hc_idx = 0
  /\ sel_log = <<>>
  /\ client = "litellm"
  /\ reply = <<>>
  /\ payload = NoPayload
  /\ verdict = NoVerdict
  /\ ServicesInitial

SpecTwins == InitTwins /\ [][Next]_vars

\* The parsing of replies on its own: every reply and payload, either client.
InitAnalyze ==
  /\ config = "distinct"
  /\ strategy = "priority"
  /\ fallback_enabled = TRUE
  /\ model_states = [id \in ModelIds |-> InitialState]
  /\ current_model_index = 0
  /\ pc = [t \in Tasks |-> "idle"]
  /\ kind = [t \in Tasks |-> "classification"]
  /\ attempt = [t \in Tasks |-> 0]
  /\ attempted = [t \in Tasks |-> <<>>]
  /\ last_error = [t \in Tasks |-> NoError]
  /\ outcome = [t \in Tasks |-> Pending]
  /\ hc_pc = "idle"
  /\ hc_idx = 0
  /\ sel_log = <<>>
  /\ client \in {"litellm", "base"}
  /\ reply \in Replies
  /\ payload \in IF "obj" \in Range(reply) THEN Payloads ELSE {NoPayload}
  /\ verdict = NoVerdict
  /\ ServicesInitial

NextAnalyze == AnalyzeTopicCompliance

SpecAnalyze == InitAnalyze /\ [][NextAnalyze]_vars

\* The router and the parser at rest, as after construction.
RouterInitial ==
  /\ config = "distinct"
  /\ strategy = "priority"
  /\ fallback_enabled = TRUE
  /\ model_states = [id \in ModelIds |-> InitialState]
  /\ current_model_index = 0
  /\ pc = [t \in Tasks |-> "idle"]
  /\ kind = [t \in Tasks |-> "classification"]
  /\ attempt = [t \in Tasks |-> 0]
  /\ attempted = [t \in Tasks |-> <<>>]
  /\ last_error = [t \in Tasks |-> NoError]
  /\ outcome = [t \in Tasks |-> Pending]
  /\ hc_pc = "idle"
  /\ hc_idx = 0
  /\ sel_log = <<>>
  /\ reply = <<>>
  /\ payload = NoPayload
  /\ verdict = NoVerdict

\* The violation records on their own: calls in any order, at any time.
InitTracker ==
  /\ RouterInitial
  /\ client = "litellm"
  /\ TrackerInitial
  /\ ChatInitial
  /\ PoolInitial
  /\ MentionInitial

NextTracker ==
  \/ \E T \in ChatTopics, s \in ChatTopics : s # T /\ RecordViolationCall(T, s)
  \/ \E T \in ChatTopics : ResetViolationsCall(T)
  \/ \E T \in TopicNames : GetViolationCountCall(T)
  \/ Tick

SpecTracker == InitTracker /\ [][NextTracker]_vars

\* One message of the target group, handled after earlier messages have left
\* violations, a learned thread id and a custom emoji behind.
InitChat ==
  /\ RouterInitial
  /\ client \in {"litellm", "base"}
  /\ now = 0
  /\ last_count = NoCount
  /\ \E k \in 0..VIOLATION_MAX_LENGTH :
       LET e == EarlierViolations(<<>>, <<>>, k)
       IN violation_records = e.records /\ tracker_log = e.log
  /\ existing_topics \in
       { [ConstructedTopics EXCEPT !["Reyt"] = TopicInfo("Reyt", t, e)] :
           t \in {NoThread, 1}, e \in {None, CustomEmoji} }
  /\ reaction_levels \in ReactionTables
  /\ msg = NoMessage
  /\ h_pc = "idle"
  /\ rule = 0
  /\ resolved_name = None
  /\ topic = NoTopic
  /\ probe_depth = 0
  /\ result = NoResult
  /\ violation_count = 0
  /\ response_type = None
  /\ htv = "not_called"
  /\ calls = <<>>
  /\ PoolInitial
  /\ MentionInitial

NextChat ==
  \/ \E m \in Messages(NextMessageId) : HandleGroupMessage(m)
  \/ \E e \in Exceptions : ProbeSendFails(e)
  \/ \E sent \in SentMessages(msg.message_id + probe_depth + 1,
                              msg.message_thread_id) : ProbeSent(sent)
  \/ \E o \in {"ok"} \cup Exceptions : ProbeDeleted(o)
  \/ \E e \in AiErrors : AnalysisRaises(e)
  \/ \E v \in Verdicts(client) : AnalysisReturns(v)
  \/ CustomReactionOk
  \/ \E e \in Exceptions : CustomReactionFails(e)
  \/ \E o \in {"ok"} \cup Exceptions : DefaultReactionEnds(o)
  \/ ReplyOk
  \/ \E e \in Exceptions : ReplyFails(e)

SpecChat == InitChat /\ [][NextChat]_vars

\* The tracked message handled while time passes and while the handlers of
\* other messages record their violations.
InitConcurrent ==
  /\ InitChat
  /\ client = "base"
  /\ reaction_levels \notin {DefaultLevels, (2 :> "polite_warning")}
  /\ existing_topics =
       [ConstructedTopics EXCEPT !["Reyt"] = TopicInfo("Reyt", NoThread, CustomEmoji)]

\* The messages of the general topic: no thread id, a reply or not.
PlainMessages(id) ==
  {m \in Messages(id) : /\ m.forum_topic_created = NoForumTopic
                        /\ m.message_thread_id = NoThread
                        /\ ~m.is_topic_message}

NextConcurrent ==
  \/ \E m \in PlainMessages(NextMessageId) : HandleGroupMessage(m)
  \/ \E e \in AiErrors : AnalysisRaises(e)
  \/ \E v \in Verdicts(client) : AnalysisReturns(v)
  \/ CustomReactionOk
  \/ \E e \in Exceptions : CustomReactionFails(e)
  \/ \E o \in {"ok"} \cup Exceptions : DefaultReactionEnds(o)
  \/ ReplyOk
  \/ \E e \in Exceptions : ReplyFails(e)
  \/ \E T \in ChatTopics, s \in ChatTopics : s # T /\ OtherMessageRecorded(T, s)
  \/ Tick

SpecConcurrent == InitConcurrent /\ [][NextConcurrent]_vars

\* The construction of a pool on its own, from every list of descriptors.
InitPool ==
  /\ RouterInitial
  /\ client = "litellm"
  /\ TrackerInitial
  /\ ChatInitial
  /\ pool_args \in PoolArguments
  /\ pool = NoPool
  /\ listed = NotListed
  /\ MentionInitial

NextPool ==
  \/ ConstructPool
  \/ GetAllAvailableModelsCall

SpecPool == InitPool /\ [][NextPool]_vars

\* Messages that mention the bot, one after another, with either client.
InitMention ==
  /\ RouterInitial
  /\ client \in {"litellm", "base"}
  /\ TrackerInitial
  /\ ChatInitial
  /\ PoolInitial
  /\ MentionInitial

NextMention ==
  \/ HandleBotMention
  \/ \E g \in Generations : GenerationEnds(g)
  \/ \E o \in {"ok"} \cup Exceptions : ReplyEnds(o)
  \/ \E o \in {"ok"} \cup Exceptions : ApologyEnds(o)

SpecMention == InitMention /\ [][NextMention]_vars

\* =============================================================== properties
State(i) == model_states[ModelId(i)]
Distinct(s) == \A a, b \in 1..Len(s) : a # b => s[a] # s[b]

\* Logical request t takes a step in which its model request fails.
RequestFails(t) ==
  /\ pc[t] = "awaiting"
  /\ \/ pc'[t] = "raised"
     \/ pc'[t] = "awaiting" /\ attempt'[t] # attempt[t]

\* Logical request t takes a step in which it sends a request to a model.
SendsRequest(t) ==
  /\ pc'[t] = "awaiting"
  /\ pc[t] # "awaiting" \/ attempt'[t] # attempt[t]

\* The health probe of model hc_idx ends in this step.
ProbeEnds == hc_pc = "probing" /\ <<hc_pc, hc_idx>>' # <<hc_pc, hc_idx>>

\* C1: within one logical request no model is sent more than one request, and
\* at most max_fallback_attempts requests are sent (attempted[t] holds the
\* models requested so far: each append is followed at once by the request).
C1_NoModelReused ==
  \A t \in Tasks :
    Len(attempted[t]) <= MaxFallbackAttempts /\ Distinct(attempted[t])

\* A logical request that used all its attempts, on three different models.
C1_Witness ==
  \E t \in Tasks : pc[t] = "raised" /\ Len(attempted[t]) = MaxFallbackAttempts

\* C2: with fallback enabled, when a model request fails while attempts remain
\* and some available model has not been attempted, the logical request goes
\* on with a request to a model it has not attempted.
C2_FallbackToOtherModel ==
  [][\A t \in Tasks :
       ( /\ fallback_enabled
         /\ RequestFails(t)
         /\ attempt[t] + 1 < MaxFallbackAttempts
         /\ \E i \in ModelIdx :
              model_states'[ModelId(i)].available /\ i \notin Range(attempted[t]) )
       => ( /\ pc'[t] = "awaiting"
            /\ Len(attempted'[t]) = Len(attempted[t]) + 1
            /\ attempted'[t][Len(attempted'[t])] \notin Range(attempted[t]) )]_vars

\* C3: a logical request that ends without a successful model request gives
\* its caller a failure that references the error of its last failed model
\* request, never an absent one.
C3_LastErrorReferenced ==
  \A t \in Tasks :
    pc[t] = "raised" =>
      /\ outcome[t].last # NoError
      /\ attempted[t] # <<>>
      /\ outcome[t].last.model = CurrentModel(t)

\* C4: with fallback disabled the first failed model request ends the logical
\* request: one request was made and its failure is what the caller receives.
C4_NoFallbackWhenDisabled ==
  ~fallback_enabled =>
    \A t \in Tasks :
      /\ Len(attempted[t]) <= 1
      /\ last_error[t] # NoError =>
           /\ pc[t] = "raised"
           /\ Len(attempted[t]) = 1
           /\ last_error[t].model = attempted[t][1]
           /\ outcome[t] = ProviderFailure(last_error[t])

\* A failure surfaced although another available model was at hand.
C4_Witness ==
  /\ ~fallback_enabled
  /\ \E t \in Tasks :
       /\ pc[t] = "raised"
       /\ outcome[t].result = "provider_failure"
       /\ \E i \in ModelIdx : State(i).available /\ i \notin Range(attempted[t])

\* C5: a failed request adds one to the consecutive-failure count of its
\* model; the model stays as it was while the count is below max_retries and is
\* unavailable once the count reaches max_retries; a successful request puts
\* the count back to zero.
C5_UnavailableAtMaxRetries ==
  [][\A i \in ModelIdx :
       LET before == model_states[ModelId(i)]
           after == model_states'[ModelId(i)]
       IN /\ after.failed_requests # before.failed_requests =>
               /\ after.error_count = before.error_count + 1
               /\ after.error_count < Models[i].max_retries =>
                    after.available = before.available
               /\ after.error_count >= Models[i].max_retries => ~after.available
          /\ \A t \in Tasks :
               (pc[t] = "awaiting" /\ pc'[t] = "done" /\ CurrentModel(t) = i) =>
                 after.error_count = 0 /\ after.available = before.available]_vars

\* One model is still available one failure short of its max_retries, another
\* is unavailable with its count at max_retries.
C5_Witness ==
  /\ \E i \in ModelIdx :
       /\ State(i).available
       /\ State(i).error_count >= 1
       /\ State(i).error_count = Models[i].max_retries - 1
  /\ \E j \in ModelIdx :
       ~State(j).available /\ State(j).error_count = Models[j].max_retries

\* C6: the probe of an unavailable model that succeeds makes the model
\* available with a consecutive-failure count of zero; one that fails leaves
\* it unavailable, and health_check goes on or returns.
C6_HealthProbe ==
  [][(ProbeEnds /\ ~model_states[ModelId(hc_idx)].available) =>
       LET before == model_states[ModelId(hc_idx)]
           after == model_states'[ModelId(hc_idx)]
       IN /\ hc_pc' \in {"probing", "done"}
          /\ IF after.failed_requests = before.failed_requests
             THEN after.available /\ after.error_count = 0
             ELSE ~after.available]_vars

\* health_check has returned; it re-enabled one model (available again after a
\* failure although its max_retries is 1) and failed to re-enable another.
C6_Witness ==
  /\ hc_pc = "done"
  /\ \E i \in ModelIdx :
       /\ Models[i].max_retries = 1
       /\ State(i).available
       /\ State(i).error_count = 0
       /\ State(i).failed_requests >= 1
  /\ \E j \in ModelIdx : ~State(j).available /\ State(j).failed_requests >= 2

\* C7: every request goes to a model that is available when it is selected,
\* and only the successful probe of a model makes it available again.
C7_UnavailableNeverSelected ==
  [][/\ \A t \in Tasks :
          SendsRequest(t) => model_states'[ModelId(CurrentModel(t)')].available
     /\ \A i \in ModelIdx :
          (~model_states[ModelId(i)].available /\ model_states'[ModelId(i)].available)
            => /\ ProbeEnds
               /\ hc_idx = i
               /\ model_states'[ModelId(i)].failed_requests
                    = model_states[ModelId(i)].failed_requests]_vars

\* A fallback request under way whose first model has become unavailable.
C7_Witness ==
  \E t \in Tasks :
    /\ pc[t] = "awaiting"
    /\ Len(attempted[t]) >= 2
    /\ ~State(attempted[t][1]).available

\* The models of the logged selections.
Visited == {sel_log[k].m : k \in 1..Len(sel_log)}

\* C8 as stated: N consecutive round-robin selections made while all N models
\* are available, with no failure in between, visit every model.
C8_RoundRobinVisitsAll ==
  (Len(sel_log) = Len(Models) /\ \A k \in 1..Len(sel_log) : sel_log[k].all)
    => Visited = ModelIdx

\* C8 as amended: they visit every model when the candidate list of each of
\* the selections is the whole pool.
C8_RoundRobinFullList ==
  (Len(sel_log) = Len(Models) /\ \A k \in 1..Len(sel_log) : sel_log[k].full)
    => Visited = ModelIdx

\* N selections over the whole pool, by requests that ran one after another
\* and at the same time.
C8_Witness ==
  /\ Len(sel_log) = Len(Models)
  /\ \A k \in 1..Len(sel_log) : sel_log[k].full
  /\ \A t \in Tasks : pc[t] = "awaiting"

\* C9: under load_balance, of two available candidates with equal priority,
\* tags and max_retries, one with no request yet and one with a failure
\* recorded, the selection returns the one with no request yet.
C9_PrefersFreshModel ==
  strategy = "load_balance" =>
    \A k \in Kinds :
      LET c == Candidates(TagsOf(k), model_states) IN
      \A a, b \in Range(c) :
        ( /\ Len(c) = 2
          /\ a # b
          /\ Models[a].priority = Models[b].priority
          /\ Models[a].tags = Models[b].tags
          /\ Models[a].max_retries = Models[b].max_retries
          /\ State(a).total_requests = 0
          /\ State(a).failed_requests = 0
          /\ State(b).failed_requests >= 1 )
        => \A s \in SelectModel(TagsOf(k), model_states, current_model_index) :
             s.model = a

\* C10: a reply that is not JSON once its code fence is stripped makes
\* analyze_topic_compliance return is_appropriate = true with confidence 0,
\* whichever client it belongs to.
C10_ParseFailureIsAppropriate ==
  ( /\ verdict # NoVerdict
    /\ ~JsonLoads(IF client = "litellm" THEN CleanJsonResponse(reply)
                  ELSE CleanJsonFromResponse(reply)) )
  => ( /\ verdict.status = "result"
       /\ verdict.is_appropriate
       /\ verdict.confidence = 0 )

\* ------------------------------------------------------------ C11 and C12
Max0(S) == IF S = {} THEN 0 ELSE CHOOSE x \in S : \A y \in S : y <= x

\* The calls record_violation(T) since the last reset_violations(T), oldest
\* first, as positions of tracker_log.
RecordedSinceReset(T) ==
  LET last_reset == Max0({i \in 1..Len(tracker_log) :
                            /\ tracker_log[i].op = "reset"
                            /\ tracker_log[i].topic = T})
      Mine(e) == e.op = "record" /\ e.topic = T
  IN SelectSeq(SubSeq(tracker_log, last_reset + 1, Len(tracker_log)), Mine)

\* What the count of topic T ought to be: of the last VIOLATION_MAX_LENGTH
\* records since the last reset, those strictly inside the time window.
ExpectedCount(T) ==
  LET r == RecordedSinceReset(T)
      kept == SubSeq(r, Max2(1, Len(r) - VIOLATION_MAX_LENGTH + 1), Len(r))
  IN Cardinality({i \in 1..Len(kept) :
                    kept[i].timestamp > now - VIOLATION_TIME_WINDOW})

\* C11: after any sequence of record_violation and reset_violations calls,
\* get_violation_count(T) is the number of records of T made since the last
\* reset of T that are among the last VIOLATION_MAX_LENGTH of them and whose
\* timestamp is strictly inside the trailing time window; a topic that was
\* never recorded counts 0.
C11_CountOfRecentRecords ==
  /\ \A T \in TopicNames :
       GetViolationCount(violation_records, T, now) = ExpectedCount(T)
  /\ last_count # NoCount => last_count.count = ExpectedCount(last_count.topic)

\* Four records of one topic since its reset, the oldest dropped, one of the
\* kept three outside the window: the count that was returned is 2.
C11_Witness ==
  /\ last_count = [topic |-> "Reyt", count |-> 2]
  /\ Len(RecordedSinceReset("Reyt")) = VIOLATION_MAX_LENGTH + 1
  /\ Len(violation_records["Reyt"]) = VIOLATION_MAX_LENGTH

\* The deque stored for topic A, if there is one.
Stored(vr, A) == IF A \in DOMAIN vr THEN <<vr[A]>> ELSE <<>>

\* C12: record_violation and reset_violations on a topic B, and
\* get_violation_count on any topic, leave the stored history and the count
\* of every other topic A as they were.
C12_TopicsIndependent ==
  [][ \A A \in TopicNames :
        ( \/ last_count' # NoCount
          \/ /\ Len(tracker_log') = Len(tracker_log) + 1
             /\ tracker_log'[Len(tracker_log')].topic # A )
        => /\ Stored(violation_records', A) = Stored(violation_records, A)
           /\ GetViolationCount(violation_records', A, now')
                = GetViolationCount(violation_records, A, now) ]_vars

\* Topic "Reyt" has just been reset while "Osnovnoy chat" holds two recent
\* records.
C12_Witness ==
  /\ tracker_log # <<>>
  /\ tracker_log[Len(tracker_log)].op = "reset"
  /\ tracker_log[Len(tracker_log)].topic = "Reyt"
  /\ GetViolationCount(violation_records, "Osnovnoy chat", now) = 2
  /\ GetViolationCount(violation_records, "Reyt", now) = 0

\* ------------------------------------------------------------- C13 to C20
IsResponse(c) == c.op \in {"set_message_reaction", "reply"}
\* The reactions and replies made for the handled message, in order.
ResponseCalls == SelectSeq(calls, IsResponse)
IsAnalysis(c) == c.op = "analyze_topic_compliance"
\* A violation record of the message with this id is stored.
RecordedFor(id) ==
  \E T \in DOMAIN violation_records :
    \E i \in 1..Len(violation_records[T]) :
      violation_records[T][i].message_id = id

\* C13: whenever the verdict returned for a message of a catalogued topic
\* has is_appropriate = false, one ViolationRecord for that message is
\* appended to the history of the current topic of the message.
C13_InappropriateIsRecorded ==
  [][ ( /\ h_pc = "analyzing"
        /\ result'.status = "result"
        /\ ~result'.is_appropriate )
      => LET T == topic.name
             d == IF T \in DOMAIN violation_records
                  THEN violation_records[T] ELSE <<>>
         IN /\ T \in DOMAIN violation_records'
            /\ violation_records'[T]
                 = DequeAppend(d, ViolationRecord(UserId, T, msg.message_id,
                                                  result'.suggested_topic, now))
    ]_vars

C15_SameTopicNoAction ==
  ( /\ result.status = "result"
    /\ ~result.is_appropriate
    /\ result.suggested_topic = topic.name )
  => /\ ResponseCalls = <<>>
     /\ ~RecordedFor(msg.message_id)
     /\ htv = "returned"

\* handle_topic_violation was called in the polite tier with the current
\* topic as the suggested one, and returned.
C15_Witness ==
  /\ htv = "returned"
  /\ result.suggested_topic = topic.name
  /\ response_type = "polite_warning"
  /\ violation_count = 2
  /\ ResponseCalls = <<>>

\* C16: whatever call to Telegram fails while a violation is responded to,
\* with whatever error, handle_topic_violation returns normally and the
\* handling of the message ends.
C16_FailuresNeverPropagate ==
  /\ htv # "raised"
  /\ ( /\ h_pc = "done"
       /\ \E i \in 1..Len(ResponseCalls) : ResponseCalls[i].error # "ok" )
     => htv = "returned"

\* A reply failed with an error that is no TelegramBadRequest, and
\* handle_topic_violation returned.
C16_Witness ==
  /\ h_pc = "done"
  /\ htv = "returned"
  /\ Len(ResponseCalls) = 1
  /\ ResponseCalls[1].op = "reply"
  /\ ResponseCalls[1].error = "Exception"

\* C17: in the silent tier the reaction is made with the custom emoji of the
\* suggested topic when the topic is known and has one, and the default emoji
\* is used exactly when there is none (then with no call for a custom emoji)
\* or when Telegram rejects the reaction with the custom emoji.
C17_CustomEmojiPreferred ==
  ( /\ htv = "returned"
    /\ response_type = "reaction_only"
    /\ result.suggested_topic # topic.name )
  => LET s == result.suggested_topic
         has_custom == /\ s \in DOMAIN existing_topics
                       /\ existing_topics[s].custom_emoji_id # None
         r == ResponseCalls
     IN IF has_custom
        THEN /\ r # <<>>
             /\ r[1].arg = existing_topics[s].custom_emoji_id
             /\ r[1].error = "ok" => Len(r) = 1
             /\ r[1].error # "ok" => Len(r) = 2 /\ r[2].arg = REACTION_EMOJI
        ELSE /\ Len(r) = 1
             /\ r[1].arg = REACTION_EMOJI

\* The reaction with the custom emoji was rejected and the default emoji was
\* set in its place.
C17_Witness ==
  /\ htv = "returned"
  /\ response_type = "reaction_only"
  /\ Len(ResponseCalls) = 2
  /\ ResponseCalls[1].arg = CustomEmoji
  /\ ResponseCalls[1].error = "TelegramBadRequest"
  /\ ResponseCalls[2].arg = REACTION_EMOJI
  /\ ResponseCalls[2].error = "ok"

\* The thread id of message m has a learned topic name in et.
HasMapping(m, et) ==
  /\ m.message_thread_id # NoThread
  /\ \E n \in DOMAIN et : et[n].topic_id = m.message_thread_id

\* The name that the rule gives message m, for the rules that need no probe.
RuleGivesName(r, m, et, name) ==
  /\ r = 1 => name = m.forum_topic_created.name
  /\ r = 2 => name = m.reply_to_message.name
  /\ r = 3 => /\ name \in DOMAIN et
              /\ et[name].topic_id = m.message_thread_id
  /\ r = 5 => name = "Osnovnoy chat"

\* The first of the rules (1) to (4) that applies to m, 0 when none does.
FirstOfFour(m, et) ==
  IF m.forum_topic_created # NoForumTopic THEN 1
  ELSE IF m.reply_to_message # NoForumTopic THEN 2
  ELSE IF HasMapping(m, et) THEN 3
  ELSE IF /\ m.is_topic_message
          /\ m.message_thread_id # NoThread
          /\ ~HasMapping(m, et) THEN 4
  ELSE 0

\* C18 as stated: the topic of a message is resolved by the first rule that
\* applies, and the default topic (5) is used only when the message carries
\* no thread id.
C18_FirstApplicableRule ==
  [][ (h_pc = "idle" /\ h_pc' # "idle")
      => LET first == FirstOfFour(msg', existing_topics)
         IN /\ first # 0 => rule' = first
            /\ rule' = 5 => msg'.message_thread_id = NoThread
            /\ rule' = 4 => h_pc' = "probing"
            /\ rule' # 4 => RuleGivesName(rule', msg', existing_topics,
                                          resolved_name') ]_vars

\* C18 amended: the default topic is used when none of the rules (1) to (4)
\* applies, that is for a message without a thread id and for a message
\* whose thread id has no mapping and that is not flagged as a topic message.
C18_FirstMatchingCase ==
  [][ (h_pc = "idle" /\ h_pc' # "idle")
      => LET first == FirstOfFour(msg', existing_topics)
         IN /\ rule' = IF first # 0 THEN first ELSE 5
            /\ rule' = 5 => \/ msg'.message_thread_id = NoThread
                            \/ /\ ~msg'.is_topic_message
                               /\ ~HasMapping(msg', existing_topics)
            /\ rule' = 4 => h_pc' = "probing"
            /\ rule' # 4 => RuleGivesName(rule', msg', existing_topics,
                                          resolved_name') ]_vars

\* A message with a thread id that has no mapping, not flagged as a topic
\* message, was given the default topic.
C18_Witness ==
  /\ rule = 5
  /\ msg.message_thread_id # NoThread
  /\ ~msg.is_topic_message
  /\ resolved_name = "Osnovnoy chat"
  /\ topic.name = "Osnovnoy chat"

\* C19: when the name resolved for a message is no key of the catalog (the
\* probe that finds nothing included), the message has no topic and is not
\* analyzed: no request to the AI client, no violation record, no reaction
\* and no reply.
C19_UncataloguedNotAnalyzed ==
  (h_pc \notin {"idle", "probing", "deleting"} /\ resolved_name \notin ChatTopics)
  => /\ h_pc = "done"
     /\ topic = NoTopic
     /\ SelectSeq(calls, IsAnalysis) = <<>>
     /\ ResponseCalls = <<>>
     /\ ~RecordedFor(msg.message_id)
     /\ result = NoResult
     /\ htv = "not_called"

\* The probe of a thread found a topic outside the catalog, the test message
\* was deleted and the handler returned.
C19_Witness ==
  /\ h_pc = "done"
  /\ rule = 4
  /\ resolved_name = None
  /\ Len(calls) = 2
  /\ calls[1].op = "send_message" /\ calls[1].error = "ok"
  /\ calls[2].op = "delete_message"

\* C20: a pool constructed from no model, or from two descriptors with the
\* same (provider, model name, credential), fails; every pool that is
\* constructed has at least one descriptor and pairwise distinct ones.
C20_PoolValidated ==
  pool.status # "none"
  => /\ (pool_args.models = <<>> \/ ~Distinct(pool_args.models))
          => pool.status = "raised"
     /\ pool.status = "constructed"
          => Len(pool.models) >= 1 /\ Distinct(pool.models)

\* ------------------------------------------------------------- C21 to C30
\* C21: for every constructed pool of N >= 1 descriptors,
\* get_all_available_models returns N identifiers, no two of them equal.
C21_ListsDistinctIdentifiers ==
  listed # NotListed
  => /\ Len(pool.models) >= 1
     /\ Len(listed) = Len(pool.models)
     /\ Distinct(listed)

\* C22: when analyze_topic_compliance fails (a failed provider, or all of
\* them), the handling of the message ends without an exception, with no
\* violation recorded for the message and no reaction and no reply.
C22_FailedAnalysisIsSilent ==
  (\E i \in 1..Len(calls) : IsAnalysis(calls[i]) /\ calls[i].error \in AiErrors)
  => /\ h_pc = "done"
     /\ result = AnalysisFailed
     /\ htv = "not_called"
     /\ ResponseCalls = <<>>
     /\ ~RecordedFor(msg.message_id)

\* The analysis of a message failed with an APIError in a topic that holds
\* earlier violations, under a table that escalates.
C22_Witness ==
  /\ h_pc = "done"
  /\ result = AnalysisFailed
  /\ calls[Len(calls)].error = "APIError"
  /\ GetViolationCount(violation_records, topic.name, now) = 2
  /\ reaction_levels # DefaultLevels

\* The replies that Telegram delivered, in order.
Delivered == LET Ok(r) == r.error = "ok" IN SelectSeq(replies, Ok)
\* Telegram refused no reply whose text it could send.
TransportWorked ==
  \A i \in 1..Len(replies) :
    Deliverable(replies[i].text) => replies[i].error \in {"ok", "pending"}
\* The AI layer gave a text for the mention.
GaveText == generated.status = "content" /\ Deliverable(generated.content)

Clamped(c) == IF c < 0 THEN 0 ELSE IF c > 10 THEN 10 ELSE c

\* C24: for a reply that parses and reports a confidence, below 0, inside
\* [0, 1] or above 1, analyze_topic_compliance returns a result whose
\* confidence is the reported one clamped to [0, 1], and does not fail.
C24_ConfidenceClamped ==
  ( /\ verdict # NoVerdict
    /\ JsonLoads(IF client = "litellm" THEN CleanJsonResponse(reply)
                  ELSE CleanJsonFromResponse(reply))
    /\ payload.confidence # <<>> )
  => ( /\ verdict.status = "result"
       /\ verdict.confidence = Clamped(payload.confidence[1]) )

\* C25: a verdict that is not appropriate and suggests a topic that is not
\* among the known topics is not acted on: no violation is recorded for the
\* message and no reaction and no reply is made.
C25_UnknownSuggestionIgnored ==
  ( /\ result.status = "result"
    /\ ~result.is_appropriate
    /\ result.suggested_topic # None
    /\ result.suggested_topic \notin DOMAIN existing_topics )
  => /\ ResponseCalls = <<>>
     /\ ~RecordedFor(msg.message_id)

Min2(a, b) == IF a <= b THEN a ELSE b

\* C26: in the step that records the violation of a message and calls
\* handle_topic_violation, the count that is read includes the record of the
\* message: it is the count of the topic before the step plus one (at most
\* VIOLATION_MAX_LENGTH), so at least 1 and exactly 1 for the first violation
\* inside the window; and the history of the topic after the step is the
\* history before it with the record of the message appended, whatever the
\* handlers of other messages recorded before or record after.
C26_CountIncludesOwnRecord ==
  [][ ( /\ h_pc = "analyzing"
        /\ result'.status = "result"
        /\ ~result'.is_appropriate
        /\ result'.suggested_topic \notin {None, topic.name} )
      => LET T == topic.name
             d == IF T \in DOMAIN violation_records
                  THEN violation_records[T] ELSE <<>>
             before == GetViolationCount(violation_records, T, now)
         IN /\ htv' # "not_called"
            /\ T \in DOMAIN violation_records'
            /\ violation_records'[T]
                 = DequeAppend(d, ViolationRecord(UserId, T, msg.message_id,
                                                  result'.suggested_topic, now))
            /\ violation_count' >= 1
            /\ violation_count' = Min2(before + 1, VIOLATION_MAX_LENGTH)
            /\ before = 0 => violation_count' = 1
    ]_vars

\* The violation of another message was recorded while the tracked message
\* was being analyzed; the tracked message then counted two violations, its
\* own the latest.
C26_Witness ==
  /\ htv # "not_called"
  /\ violation_count = 2
  /\ topic.name \in DOMAIN violation_records
  /\ LET d == violation_records[topic.name]
     IN /\ Len(d) = 2
        /\ d[2].message_id = msg.message_id
        /\ d[1].message_id > msg.message_id

\* A model request to model i (of a logical request, or a probe) ends in
\* this step.
RequestEnds(i) ==
  \/ \E t \in Tasks :
       /\ pc[t] = "awaiting"
       /\ CurrentModel(t) = i
       /\ pc'[t] # "awaiting" \/ attempt'[t] # attempt[t]
  \/ ProbeEnds /\ hc_idx = i
\* A model request to model j is started in this step.
RequestStarts(j) ==
  \/ \E t \in Tasks : SendsRequest(t) /\ CurrentModel(t)' = j
  \/ hc_pc' = "probing" /\ hc_idx' = j /\ <<hc_pc, hc_idx>>' # <<hc_pc, hc_idx>>

\* C27: the success or the failure of a request to one model changes the
\* health state of that model only: the availability flag and the counts of
\* every other model of the pool stay as they were (but for the request that
\* the same step may start on another model), also for two models with the
\* same provider and name and different credentials.
C27_OwnHealthState ==
  [][ \A i, j \in ModelIdx :
        (i # j /\ RequestEnds(i))
        => LET before == model_states[ModelId(j)]
               after == model_states'[ModelId(j)]
           IN /\ after.available = before.available
              /\ after.error_count = before.error_count
              /\ after.failed_requests = before.failed_requests
              /\ \/ after.total_requests = before.total_requests
                 \/ /\ RequestStarts(j)
                    /\ after.total_requests = before.total_requests + 1
    ]_vars

\* C28: in every reachable state, whatever the order in which the requests
\* in flight to one model and the probes complete, a model that is marked
\* unavailable has a consecutive-error count of at least its max_retries.
C28_UnavailableHasErrors ==
  \A i \in ModelIdx :
    ~State(i).available => State(i).error_count >= Models[i].max_retries

IsProbeMessage(c) == c.op = "send_message"

\* C29: the resolution of the topic of a message that is flagged as a topic
\* message and whose thread id has no mapping sends at most one test message,
\* whatever message Telegram returns for it.
C29_AtMostOneProbe ==
  rule = 4 => Len(SelectSeq(calls, IsProbeMessage)) <= 1

\* C30: for every model, in every reachable state,
\* 0 <= consecutive-error count <= failed_requests <= total_requests, so the
\* success rate that get_model_stats reports lies in [0, 1].
C30_CountsOrdered ==
  \A i \in ModelIdx :
    /\ 0 <= State(i).error_count
    /\ State(i).error_count <= State(i).failed_requests
    /\ State(i).failed_requests <= State(i).total_requests
    /\ LET success_rate == SuccessRate(State(i))
       IN 0 <= success_rate.num /\ success_rate.num <= success_rate.den

\* A model with two requests in flight, one of which has failed, after an
\* earlier success and a failure of the same model.
C30_Witness ==
  \E i \in ModelIdx :
    /\ State(i).total_requests >= 3
    /\ State(i).failed_requests = 2
    /\ State(i).error_count = 1
    /\ \E t \in Tasks : pc[t] = "awaiting" /\ CurrentModel(t) = i

====
